---- MODULE Spec2Model ----
(***************************************************************************)
(* A model of the lpshipit tool set: the three entry points lpshipit,      *)
(* lpmptox and lpmpmessage, the merge-proposal summarizer they share, and   *)
(* the urwid-driven cascade of prompts of the merge tool.                   *)
(*                                                                         *)
(* Representation of Python values:                                        *)
(*   - a str is a TLA+ string; None and '' (both falsy) are "";            *)
(*   - the text of the directory prompt and every path is a sequence of    *)
(*     one-character strings, None and '' being << >>;                     *)
(*   - a git ref path is the sequence of its '/'-separated components;     *)
(*   - a multi-line text (description, commit message) is the sequence of  *)
(*     its lines, None and '' being << >>;                                 *)
(*   - an optional record (the chosen proposal) is a sequence of length    *)
(*     0 or 1, and so is the --environment option, which the code tests    *)
(*     with `is not None`: << >> is None, << "" >> the empty string.       *)
(***************************************************************************)
EXTENDS Integers, Sequences, FiniteSets, TLC

VARIABLES
    tool,              \* the entry point that was started
    cli,               \* the click options of the invocation
    mps,               \* what person.getMergeProposals returns
    local_branches,    \* [branch.name for branch in repo.branches]
    active_branch,     \* repo.active_branch.name, "" for a detached HEAD
    pc,                \* position of the entry point's body
    mp_summaries,      \* the summarizer's result
    widget,            \* loop.widget, the screen that is shown
    edit_text,         \* directory_q.edit_text
    focus,             \* focus position of the list walker that is shown
    directory,         \* user_args['directory']
    checkedout_branch, \* user_args['checkedout_branch'] (its name)
    chosen_mp,         \* user_args['chosen_mp'], CHOSEN_MP of lpmptox
    source_branch,     \* user_args['source_branch']
    target_branch,     \* the target handed to target_branch_chosen
    mp_message_output, \* MP_MESSAGE_OUTPUT of lpmpmessage
    events,            \* the calls made on the collaborators, in order
    entered,           \* how often each screen became loop.widget
    key,               \* the last key the main loop was given, "" before
    exit_code,         \* exit status of the process, -1 while it runs
    workspace,         \* runtox's TemporaryDirectory: none, exists, removed
    container_name,    \* name in lxc_container, "" before petname gave one
    attempt,           \* failed probes of wait_for_networking so far
    returncode,        \* process.returncode of the tox command, -1 before
    runtox_returned,   \* what runtox returned to lpmptox, -1 before
    args,              \* the arguments of a function that is called alone
    retval,            \* what that call returned, << >> before
    picker             \* the fields of the Picker object, << >> without one

vars == << tool, cli, mps, local_branches, active_branch, pc, mp_summaries,
           widget, edit_text, focus, directory, checkedout_branch, chosen_mp,
           source_branch, target_branch, mp_message_output, events, entered,
           key, exit_code, workspace, container_name, attempt, returncode,
           runtox_returned, args, retval, picker >>

-----------------------------------------------------------------------------
(* Bounds of the model. *)

\* largest batch of raw proposals the remote fetch returns
MaxMps == 2
\* longest text typed into the directory prompt
MaxEditLen == 2

-----------------------------------------------------------------------------
(* Generic helpers. *)

RECURSIVE Join(_, _)
\* sep.join(parts)
Join(parts, sep) ==
    IF parts = << >> THEN ""
    ELSE IF Len(parts) = 1 THEN parts[1]
    ELSE parts[1] \o sep \o Join(Tail(parts), sep)

\* the reviewer and author names of the model, in str order
NameOrder == << "alice", "bob", "carol", "dave" >>

NameRank(n) == CHOOSE i \in 1..Len(NameOrder) : NameOrder[i] = n

RECURSIVE InsertSorted(_, _)
\* s is sorted; x goes after every element that is not greater (stable)
InsertSorted(s, x) ==
    IF s = << >> THEN << x >>
    ELSE IF NameRank(x) < NameRank(s[1]) THEN << x >> \o s
    ELSE << s[1] >> \o InsertSorted(Tail(s), x)

RECURSIVE sorted(_)
\* sorted(names) of Python on a list of str
sorted(s) ==
    IF s = << >> THEN << >>
    ELSE InsertSorted(sorted(SubSeq(s, 1, Len(s) - 1)), s[Len(s)])

-----------------------------------------------------------------------------
(* lpshipit.py: the summarizer and the commit message. *)

\* _format_git_branch_name: drops a leading 'refs/heads/'
_format_git_branch_name_DropsTwo(branch_name) ==
    Join(SubSeq(branch_name, 3, Len(branch_name)), "/")

_format_git_branch_name(branch_name) ==
    IF Len(branch_name) >= 3 /\ branch_name[1] = "refs"
                             /\ branch_name[2] = "heads"
    THEN Join(SubSeq(branch_name, 3, Len(branch_name)), "/")
    ELSE Join(branch_name, "/")

RECURSIVE VoteNames_ApproversOnly(_)
\* review_vote_parts with the append under the test for 'Approve'
VoteNames_ApproversOnly(votes) ==
    IF votes = << >> THEN << >>
    ELSE (IF ~votes[1].is_pending /\ votes[1].vote = "Approve"
          THEN << votes[1].reviewer >> ELSE << >>)
         \o VoteNames_ApproversOnly(Tail(votes))

RECURSIVE VoteNames(_)
\* review_vote_parts: the reviewer of every vote that is not pending
VoteNames(votes) ==
    IF votes = << >> THEN << >>
    ELSE (IF ~votes[1].is_pending THEN << votes[1].reviewer >> ELSE << >>)
         \o VoteNames(Tail(votes))

RECURSIVE ApprovalCount_AllDecided(_)
\* approval_count with the increment outside the test for 'Approve'
ApprovalCount_AllDecided(votes) ==
    IF votes = << >> THEN 0
    ELSE (IF ~votes[1].is_pending THEN 1 ELSE 0)
         + ApprovalCount_AllDecided(Tail(votes))

RECURSIVE ApprovalCount(_)
\* approval_count: the not pending votes whose comment.vote is 'Approve'
ApprovalCount(votes) ==
    IF votes = << >> THEN 0
    ELSE (IF ~votes[1].is_pending /\ votes[1].vote = "Approve" THEN 1 ELSE 0)
         + ApprovalCount(Tail(votes))

\* commit_message of a summary: mp.commit_message, else the description
CommitLines(mp) ==
    IF mp.commit_message = << >> THEN mp.description ELSE mp.commit_message

\* short_commit_message: the first line of the commit message
ShortCommitMessage(mp) ==
    IF CommitLines(mp) = << >> THEN "" ELSE CommitLines(mp)[1]

\* the rendering used as the label of a proposal's button
SummaryText(s) ==
    s.source_repo \o "/" \o s.source_branch
    \o "\n->" \o s.target_repo \o "/" \o s.target_branch
    \o "\n    " \o s.short_commit_message
    \o "\n    " \o ToString(s.approval_count) \o " approvals ("
    \o Join(s.reviewers, ",") \o ")"
    \o "\n    " \o ToString(s.date_created) \o " - " \o s.web

\* mp_summary of one git-backed proposal, without its 'summary' label
MpSummaryFields(mp) ==
    [ author               |-> mp.registrant,
      commit_message       |-> Join(CommitLines(mp), "\n"),
      short_commit_message |-> ShortCommitMessage(mp),
      reviewers            |-> sorted(VoteNames(mp.votes)),
      approval_count       |-> ApprovalCount(mp.votes),
      web                  |-> mp.web_link,
      target_branch        |-> _format_git_branch_name(mp.target_git_path),
      source_branch        |-> _format_git_branch_name(mp.source_git_path),
      target_repo          |-> mp.target_repo_name,
      source_repo          |-> mp.source_repo_name,
      date_created         |-> mp.date_created ]

\* mp_summary with mp_summary['summary'] set
MpSummary(mp) ==
    [ f \in DOMAIN MpSummaryFields(mp) \cup { "summary" } |->
        IF f = "summary" THEN SummaryText(MpSummaryFields(mp))
        ELSE MpSummaryFields(mp)[f] ]

RECURSIVE MpContent(_)
\* mp_content: one summary per proposal that has a source_git_repository
MpContent(batch) ==
    IF batch = << >> THEN << >>
    ELSE (IF batch[1].git THEN << MpSummary(batch[1]) >> ELSE << >>)
         \o MpContent(Tail(batch))

RECURSIVE InsertByDate_Unstable(_, _)
\* s is newest first; x goes before the elements of its own date
InsertByDate_Unstable(s, x) ==
    IF s = << >> THEN << x >>
    ELSE IF x.date_created >= s[1].date_created THEN << x >> \o s
    ELSE << s[1] >> \o InsertByDate_Unstable(Tail(s), x)

RECURSIVE InsertByDate(_, _)
\* s is newest first; x goes after every element that is not older (stable)
InsertByDate(s, x) ==
    IF s = << >> THEN << x >>
    ELSE IF x.date_created > s[1].date_created THEN << x >> \o s
    ELSE << s[1] >> \o InsertByDate(Tail(s), x)

RECURSIVE SortByDateDesc(_)
\* sorted(mp_content, key=date_created, reverse=True)
SortByDateDesc(s) ==
    IF s = << >> THEN << >>
    ELSE InsertByDate(SortByDateDesc(SubSeq(s, 1, Len(s) - 1)), s[Len(s)])

summarize_mps(batch) == SortByDateDesc(MpContent(batch))

build_commit_msg_TrailingNewline(author, reviewers, source, target, body, mp_web_link) ==
    "Merge " \o source \o " into " \o target \o " [a=" \o author
    \o "] [r=" \o reviewers \o "]\n\n" \o body
    \o "\n\nMP: " \o mp_web_link \o "\n"

\* build_commit_msg: the agreed convention merge commit message
build_commit_msg(author, reviewers, source, target, body, mp_web_link) ==
    "Merge " \o source \o " into " \o target \o " [a=" \o author
    \o "] [r=" \o reviewers \o "]\n\n" \o body
    \o "\n\nMP: " \o mp_web_link

-----------------------------------------------------------------------------
(* lpmpmessage.py: the summarizer that keeps the proposals without git. *)

\* the rendering of lpmpmessage: the repo names carry their own '/'
SummaryTextAll(s) ==
    s.source_repo \o s.source_branch
    \o "\n->" \o s.target_repo \o s.target_branch
    \o "\n    " \o s.short_commit_message
    \o "\n    " \o ToString(s.approval_count) \o " approvals ("
    \o Join(s.reviewers, ",") \o ")"
    \o "\n    " \o ToString(s.date_created) \o " - " \o s.web

\* mp_summary of lpmpmessage, without its 'summary' label
MpSummaryAllFields(mp) ==
    [ author               |-> mp.registrant,
      commit_message       |-> Join(CommitLines(mp), "\n"),
      short_commit_message |-> ShortCommitMessage(mp),
      reviewers            |-> sorted(VoteNames(mp.votes)),
      approval_count       |-> ApprovalCount(mp.votes),
      web                  |-> mp.web_link,
      target_branch        |-> IF mp.git
                               THEN _format_git_branch_name(mp.target_git_path)
                               ELSE mp.target_branch_name,
      source_branch        |-> IF mp.git
                               THEN _format_git_branch_name(mp.source_git_path)
                               ELSE mp.source_branch_name,
      target_repo          |-> IF mp.git THEN mp.target_repo_name \o "/"
                               ELSE "",
      source_repo          |-> IF mp.git THEN mp.source_repo_name \o "/"
                               ELSE "",
      date_created         |-> mp.date_created ]

\* mp_summary of lpmpmessage with mp_summary['summary'] set
MpSummaryAll(mp) ==
    [ f \in DOMAIN MpSummaryAllFields(mp) \cup { "summary" } |->
        IF f = "summary" THEN SummaryTextAll(MpSummaryAllFields(mp))
        ELSE MpSummaryAllFields(mp)[f] ]

\* mp_content of lpmpmessage with the summary under the test for git
MpContentAll_GitOnly(batch) ==
    SelectSeq([i \in 1..Len(batch) |-> MpSummaryAll(batch[i])],
              LAMBDA s : s.source_repo # "")

\* mp_content of lpmpmessage: one summary per proposal
MpContentAll(batch) == [i \in 1..Len(batch) |-> MpSummaryAll(batch[i])]

summarize_all_mps(batch) == SortByDateDesc(MpContentAll(batch))

\* summarize_git_mps, which lpmptox imports from lpshipit: the summaries of
\* the git-backed proposals, newest first.
summarize_git_mps(batch) == summarize_mps(batch)

\* the reviewers of a summary, whatever approvals_only is
ReviewerNames_IgnoresFlag(votes, approvals_only) == VoteNames(votes)

RECURSIVE ReviewerNames(_, _)
\* The vote interpretation of the summarizer that takes approvals_only: the
\* reviewer of a vote that is not pending is listed, and under approvals_only
\* only when the vote is 'Approve'.
ReviewerNames(votes, approvals_only) ==
    IF votes = << >> THEN << >>
    ELSE (IF /\ ~votes[1].is_pending
             /\ approvals_only => votes[1].vote = "Approve"
          THEN << votes[1].reviewer >> ELSE << >>)
         \o ReviewerNames(Tail(votes), approvals_only)

\* One summary of the summarizer that takes approvals_only.
Summary(mp, approvals_only) ==
    LET fields == [ MpSummaryAllFields(mp) EXCEPT
                      !.reviewers =
                          sorted(ReviewerNames(mp.votes, approvals_only)) ]
    IN  [ f \in DOMAIN fields \cup { "summary" } |->
            IF f = "summary" THEN SummaryTextAll(fields) ELSE fields[f] ]

\* summarize(raw_proposals, approvals_only): one summary per proposal,
\* newest first.
summarize(batch, approvals_only) ==
    SortByDateDesc([i \in 1..Len(batch) |->
                       Summary(batch[i], approvals_only)])

-----------------------------------------------------------------------------
(* The inputs of a run: the invocation, the remote batch, the local repo. *)

BranchNames == << "feat", "main", "dev" >>

\* The votes of the i-th proposal of the remote batch.
VotesAt(i) ==
    IF i % 2 = 1
    THEN << [reviewer |-> "carol", is_pending |-> FALSE, vote |-> "Approve"],
            [reviewer |-> "bob", is_pending |-> FALSE,
             vote |-> "Needs Fixing"],
            [reviewer |-> "alice", is_pending |-> TRUE, vote |-> ""] >>
    ELSE << >>

\* The i-th raw proposal of the remote batch; g: it is git-backed.
RawAt(i, g) ==
    [ git              |-> g,
      registrant       |-> NameOrder[((i - 1) % Len(NameOrder)) + 1],
      votes            |-> VotesAt(i),
      source_git_path  |-> << "refs", "heads", BranchNames[((i - 1) % 3) + 1] >>,
      target_git_path  |-> << "refs", "heads", BranchNames[(i % 3) + 1] >>,
      source_repo_name |-> "lp:src",
      target_repo_name |-> "lp:tgt",
      source_branch_name |-> "lp:~u/p/" \o BranchNames[((i - 1) % 3) + 1],
      target_branch_name |-> "lp:~u/p/" \o BranchNames[(i % 3) + 1],
      description      |-> << "fix thing", "details" >>,
      commit_message   |-> IF i % 2 = 1 THEN << >> ELSE << "subject" >>,
      web_link         |-> "http://x/" \o ToString(i),
      date_created     |-> i ]

\* The batches person.getMergeProposals may return.
Batches ==
    { [i \in 1..n |-> RawAt(i, g)] : n \in 0..MaxMps, g \in BOOLEAN }

\* The branch lists a local repository may have.
LocalBranchLists ==
    { << >>, << "main" >>, << "feat", "main" >>, << "main", "feat" >>,
      << "dev", "feat" >>, << "dev", "main", "feat" >>,
      << "feat", "dev", "main" >> }

\* The keys that type a character into the directory prompt.
Chars == { "d", "q", "Q", " " }

\* os.getcwd()
Cwd == << "/", "w" >>

\* The paths os.path.isdir accepts.
ExistingDirs == { Cwd, << "d" >>, << "d", "d" >> }

\* The directories git.Repo opens; any other raises.
GitRepos == { Cwd, << "d" >> }

Tools == { "lpshipit", "lpmptox", "lpmpmessage" }

\* The screens loop.widget can hold; "none" before a loop exists.
Widgets ==
    { "none", "directory_q", "error_box_directory", "mp_box",
      "source_branch_box", "target_branch_box", "merge_summary_box",
      "error_box_same_branch" }

CliOptions ==
    { [directory |-> d, source_branch |-> s, target_branch |-> t,
       environment |-> << >>] :
        d \in { << >>, << "d" >>, << "x" >> },
        s \in { "", "feat", "main" }, t \in { "", "feat", "main" } }

Init ==
    /\ tool \in Tools
    /\ mps \in Batches
    /\ IF tool = "lpshipit"
       THEN /\ cli \in CliOptions
            /\ local_branches \in LocalBranchLists
            /\ active_branch \in { "", "main", "dev" }
       ELSE /\ cli \in { [directory |-> << >>, source_branch |-> "",
                          target_branch |-> "", environment |-> e] :
                            e \in IF tool = "lpmptox"
                                  THEN { << >>, << "" >>, << "18.04" >> }
                                  ELSE { << >> } }
            /\ local_branches = << >>
            /\ active_branch = ""
    /\ pc = "start"
    /\ mp_summaries = << >>
    /\ widget = "none"
    /\ edit_text = << >>
    /\ focus = 0
    /\ directory = << >>
    /\ checkedout_branch = ""
    /\ chosen_mp = << >>
    /\ source_branch = ""
    /\ target_branch = ""
    /\ mp_message_output = ""
    /\ events = << >>
    /\ entered = [w \in Widgets |-> 0]
    /\ key = ""
    /\ exit_code = -1
    /\ workspace = "none"
    /\ container_name = ""
    /\ attempt = 0
    /\ returncode = -1
    /\ runtox_returned = -1
    /\ args = << >>
    /\ retval = << >>
    /\ picker = << >>

-----------------------------------------------------------------------------
(* urwid: what the library does with the widgets the tools build. *)

inputs == << tool, cli, mps, local_branches, active_branch >>

\* what the call of a function alone keeps: no step of a tool touches it
call_state == << args, retval, picker >>

\* what a test run of lpmptox keeps: no other step touches it
tox_state ==
    << workspace, container_name, attempt, returncode, runtox_returned >>

\* loop.widget = w
Show(w) ==
    /\ widget' = w
    /\ entered' = [entered EXCEPT ![w] = @ + 1]

\* A ListBox first focuses the first selectable widget of its walker: the
\* buttons follow `header` widgets that are not selectable.
FirstSelectable(header, buttons) == IF buttons > 0 THEN header ELSE 0

\* ExitMainLoop: loop.run() returns and so does the entry point.
ExitMainLoop ==
    /\ pc' = "done"
    /\ exit_code' = 0

\* An exception no handler catches: traceback, exit status 1.
Uncaught ==
    /\ pc' = "crashed"
    /\ exit_code' = 1

RECURSIVE Strip(_)
\* str.strip() on the text of the prompt
Strip(text) ==
    IF text = << >> THEN << >>
    ELSE IF Head(text) = " " THEN Strip(Tail(text))
    ELSE IF text[Len(text)] = " " THEN Strip(SubSeq(text, 1, Len(text) - 1))
    ELSE text

-----------------------------------------------------------------------------
(* lpshipit.py: the merge tool. *)

RECURSIVE FocusLoop(_, _, _, _, _)
\* The loop over local_branches that numbers the buttons and picks the
\* focus; i is the index of the next branch, focus is 0 for None.
FocusLoop(branches, mp_branch, checkedout, i, focus_now) ==
    IF i > Len(branches) THEN focus_now
    ELSE LET focus_counter == i + 1
             f1 == IF branches[i] = mp_branch THEN focus_counter
                   ELSE focus_now
             f2 == IF checkedout # "" /\ branches[i] = checkedout /\ f1 = 0
                   THEN focus_counter ELSE f1
         IN  FocusLoop(branches, mp_branch, checkedout, i + 1, f2)

\* The focus of a branch picker once it is drawn: set_focus(focus) when the
\* loop found one, else the list box's first selectable widget.
BranchFocus(branches, mp_branch, checkedout) ==
    LET f == FocusLoop(branches, mp_branch, checkedout, 1, 0)
    IN  IF f # 0 THEN f ELSE FirstSelectable(2, Len(branches))

\* the merge command handed to local_git.execute
MergeCommand(src, message) ==
    << "git", "merge", "--no-ff", src, "-m", message >>

\* BranchesDiffer with the test lost: every pair of branches is merged
BranchesDiffer_Always(tgt, src) == TRUE

\* the test that guards the merge: if target_branch != source_branch
BranchesDiffer(tgt, src) == tgt # src

\* show_merge_summary with loop.widget left as it was
show_merge_summary_Forgotten == UNCHANGED << widget, entered, focus >>

\* the merge summary replaces the picker: its walker holds a text, a
\* divider, the summary, a divider and the Exit button
show_merge_summary ==
    /\ Show("merge_summary_box")
    /\ focus' = FirstSelectable(4, 1)

\* MergeCalls with the merge run before the target is checked out
MergeCalls_MergeFirst(src, tgt, message) ==
    << << "build_commit_msg", message >>,
       MergeCommand(src, message),
       << "checkout", tgt >> >>

\* the calls of the merge branch, in the order the code makes them
MergeCalls(src, tgt, message) ==
    << << "build_commit_msg", message >>,
       << "checkout", tgt >>,
       MergeCommand(src, message) >>

\* the summary put on the screen before the commands are run
raised_before_summary_Shown == show_merge_summary

\* an exception of the checkout or of the merge command leaves
\* target_branch_chosen before loop.widget is given the merge summary
raised_before_summary == UNCHANGED << widget, entered, focus >>

\* target_branch_chosen; ck, mg: the checkout, the merge goes through
target_branch_chosen(src, mp, tgt, ck, mg) ==
    /\ target_branch' = tgt
    /\ IF BranchesDiffer(tgt, src)
       THEN LET commit_message ==
                    build_commit_msg(mp.author, Join(mp.reviewers, ","), src,
                                     tgt, mp.commit_message, mp.web)
                calls == MergeCalls(src, tgt, commit_message)
            IN  IF ~(\E i \in 1..Len(local_branches) : local_branches[i] = tgt)
                THEN \* repo.branches[target_branch] raises IndexError
                     /\ events' = events \o SubSeq(calls, 1, 1)
                     /\ Uncaught
                     /\ UNCHANGED << widget, entered, focus >>
                ELSE IF ~ck
                THEN /\ events' = events \o SubSeq(calls, 1, 2)
                     /\ Uncaught
                     /\ raised_before_summary
                ELSE IF ~mg
                THEN /\ events' = events \o calls
                     /\ Uncaught
                     /\ raised_before_summary
                ELSE /\ events' = events \o calls
                     /\ show_merge_summary
                     /\ UNCHANGED << pc, exit_code >>
       ELSE /\ Show("error_box_same_branch")
            /\ focus' = 0
            /\ UNCHANGED << events, pc, exit_code >>

\* ShowTargetPicker that ignores the --target-branch option
ShowTargetPicker_Always == TRUE

\* if not target_branch: the target picker is shown
ShowTargetPicker == cli.target_branch = ""

\* if not source_branch: the source picker is shown
ShowSourcePicker == cli.source_branch = ""

\* SourceFocus with the two defaults in the other order of preference
SourceFocus_CheckedoutFirst(mp) ==
    BranchFocus(local_branches, checkedout_branch, mp.source_branch)

\* the focus of the source picker
SourceFocus(mp) ==
    BranchFocus(local_branches, mp.source_branch, checkedout_branch)

\* TargetFocus without the checked-out branch as second default
TargetFocus_NoCheckedout(mp) ==
    BranchFocus(local_branches, mp.target_branch, "")

\* the focus of the target picker
TargetFocus(mp) ==
    BranchFocus(local_branches, mp.target_branch, checkedout_branch)

\* source_branch_chosen
source_branch_chosen(mp, chosen_source_branch, ck, mg) ==
    /\ source_branch' = chosen_source_branch
    /\ IF ShowTargetPicker
       THEN /\ Show("target_branch_box")
            /\ focus' = TargetFocus(mp)
            /\ UNCHANGED << target_branch, events, pc, exit_code >>
       ELSE target_branch_chosen(chosen_source_branch, mp, cli.target_branch,
                                 ck, mg)

\* mp_chosen
mp_chosen(mp, ck, mg) ==
    /\ chosen_mp' = << mp >>
    /\ IF ShowSourcePicker
       THEN /\ Show("source_branch_box")
            /\ focus' = SourceFocus(mp)
            /\ UNCHANGED << source_branch, target_branch, events, pc,
                            exit_code >>
       ELSE source_branch_chosen(mp, cli.source_branch, ck, mg)

\* directory_chosen
directory_chosen(dir) ==
    /\ directory' = dir
    /\ IF dir \in GitRepos
       THEN /\ events' = Append(events, << "Repo" >> \o dir)
            /\ checkedout_branch' = active_branch
            /\ Show("mp_box")
            /\ focus' = FirstSelectable(2, Len(mp_summaries))
            /\ UNCHANGED << pc, exit_code >>
       ELSE /\ events' = Append(events, << "Repo" >> \o dir)
            /\ Uncaught
            /\ UNCHANGED << checkedout_branch, widget, entered, focus >>

NoProposalsText ==
    "You have no Merge Proposals in either 'Needs review' or 'Approved' state"

\* lpshipit, up to loop.run()
lpshipit ==
    /\ tool = "lpshipit"
    /\ pc = "start"
    /\ mp_summaries' = summarize_mps(mps)
    /\ IF summarize_mps(mps) # << >>
       THEN IF cli.directory = << >>
            THEN /\ events' = Append(events, << "getMergeProposals" >>)
                 /\ Show("directory_q")
                 /\ pc' = "loop"
                 /\ UNCHANGED exit_code
            ELSE /\ events' = Append(events, << "getMergeProposals" >>)
                 /\ ExitMainLoop
                 /\ UNCHANGED << widget, entered >>
       ELSE /\ events' = events \o << << "getMergeProposals" >>,
                                      << "print", NoProposalsText >> >>
            /\ ExitMainLoop
            /\ UNCHANGED << widget, entered >>
    /\ UNCHANGED << inputs, call_state, tox_state, edit_text, focus, directory, checkedout_branch,
                    chosen_mp, source_branch, target_branch,
                    mp_message_output, key >>

\* GetDirectoryBox.keypress with a key other than 'enter': the Edit widget
\* takes the character.
GetDirectoryBox_type ==
    /\ tool = "lpshipit"
    /\ pc = "loop"
    /\ widget = "directory_q"
    /\ Len(edit_text) < MaxEditLen
    /\ \E k \in Chars :
           /\ key' = k
           /\ edit_text' = Append(edit_text, k)
    /\ UNCHANGED << inputs, call_state, tox_state, pc, mp_summaries, widget, focus, directory,
                    checkedout_branch, chosen_mp, source_branch,
                    target_branch, mp_message_output, events, entered,
                    exit_code >>

\* GetDirectoryBox.keypress with 'enter'
GetDirectoryBox_enter ==
    /\ tool = "lpshipit"
    /\ pc = "loop"
    /\ widget = "directory_q"
    /\ key' = "enter"
    /\ LET chosen_directory ==
               IF Strip(edit_text) = << >> THEN Cwd ELSE Strip(edit_text)
       IN  IF chosen_directory \in ExistingDirs
           THEN directory_chosen(chosen_directory)
           ELSE /\ Show("error_box_directory")
                /\ focus' = 0
                /\ UNCHANGED << directory, checkedout_branch, events, pc,
                                exit_code >>
    /\ UNCHANGED << inputs, call_state, tox_state, mp_summaries, edit_text, chosen_mp,
                    source_branch, target_branch, mp_message_output >>

\* The number of buttons of the list that is shown.
Buttons ==
    CASE widget = "mp_box" -> Len(mp_summaries)
      [] widget \in { "source_branch_box", "target_branch_box" } ->
             Len(local_branches)
      [] OTHER -> 0

\* ListBox.keypress with 'up' or 'down': the focus moves over the buttons.
ListBox_move ==
    /\ pc = "loop"
    /\ widget \in { "mp_box", "source_branch_box", "target_branch_box" }
    /\ \E k \in { "up", "down" } :
           /\ key' = k
           /\ focus' = IF k = "up" THEN focus - 1 ELSE focus + 1
    /\ 2 <= focus'
    /\ focus' <= Buttons + 1
    /\ UNCHANGED << inputs, call_state, tox_state, pc, mp_summaries, widget, edit_text, directory,
                    checkedout_branch, chosen_mp, source_branch,
                    target_branch, mp_message_output, events, entered,
                    exit_code >>

\* 'enter' on a proposal's button of the merge tool
click_mp ==
    /\ tool = "lpshipit"
    /\ pc = "loop"
    /\ widget = "mp_box"
    /\ focus >= 2
    /\ key' = "enter"
    /\ \E ck \in BOOLEAN, mg \in BOOLEAN :
           mp_chosen(mp_summaries[focus - 1], ck, mg)
    /\ UNCHANGED << inputs, call_state, tox_state, mp_summaries, edit_text, directory,
                    checkedout_branch, mp_message_output >>

\* 'enter' on a branch's button of the source picker
click_source_branch ==
    /\ tool = "lpshipit"
    /\ pc = "loop"
    /\ widget = "source_branch_box"
    /\ focus >= 2
    /\ key' = "enter"
    /\ \E ck \in BOOLEAN, mg \in BOOLEAN :
           source_branch_chosen(chosen_mp[1], local_branches[focus - 1],
                                ck, mg)
    /\ UNCHANGED << inputs, call_state, tox_state, mp_summaries, edit_text, directory,
                    checkedout_branch, chosen_mp, mp_message_output >>

\* 'enter' on a branch's button of the target picker
click_target_branch ==
    /\ tool = "lpshipit"
    /\ pc = "loop"
    /\ widget = "target_branch_box"
    /\ focus >= 2
    /\ key' = "enter"
    /\ \E ck \in BOOLEAN, mg \in BOOLEAN :
           target_branch_chosen(source_branch, chosen_mp[1],
                                local_branches[focus - 1], ck, mg)
    /\ UNCHANGED << inputs, call_state, tox_state, mp_summaries, edit_text, directory,
                    checkedout_branch, chosen_mp, source_branch,
                    mp_message_output >>

\* urwid_exit_on_q: 'q' or 'Q' that no widget handled. An Edit handles
\* every character, so the directory prompt never passes the key on.
urwid_exit_on_q ==
    /\ pc = "loop"
    /\ widget # "directory_q"
    /\ key' \in { "q", "Q" }
    /\ ExitMainLoop
    /\ UNCHANGED << inputs, call_state, tox_state, mp_summaries, widget, edit_text, focus,
                    directory, checkedout_branch, chosen_mp, source_branch,
                    target_branch, mp_message_output, events, entered >>

\* urwid_exit_program: the Exit button of the merge summary
urwid_exit_program ==
    /\ pc = "loop"
    /\ widget = "merge_summary_box"
    /\ focus = 4
    /\ key' = "enter"
    /\ ExitMainLoop
    /\ UNCHANGED << inputs, call_state, tox_state, mp_summaries, widget, edit_text, focus,
                    directory, checkedout_branch, chosen_mp, source_branch,
                    target_branch, mp_message_output, events, entered >>

-----------------------------------------------------------------------------
(* lpmptox.py and lpmpmessage.py: the single-pick tools. *)

\* _set_urwid_widget, which both tools import from lpshipit: shows the
\* widget in the process's one main loop and runs the loop.
_set_urwid_widget(w) ==
    /\ Show(w)
    /\ focus' = FirstSelectable(2, Len(mp_summaries'))
    /\ pc' = "loop"

\* lpmptox, up to the main loop
lpmptox ==
    /\ tool = "lpmptox"
    /\ pc = "start"
    /\ mp_summaries' = summarize_git_mps(mps)
    /\ IF summarize_git_mps(mps) # << >>
       THEN /\ events' = Append(events, << "getMergeProposals" >>)
            /\ _set_urwid_widget("mp_box")
            /\ UNCHANGED exit_code
       ELSE /\ events' = events \o << << "getMergeProposals" >>,
                                      << "print", NoProposalsText >> >>
            /\ ExitMainLoop
            /\ UNCHANGED << widget, entered, focus >>
    /\ UNCHANGED << inputs, call_state, tox_state, edit_text, directory, checkedout_branch,
                    chosen_mp, source_branch, target_branch,
                    mp_message_output, key >>

clicked_mp_Last(summaries, position) == summaries[Len(summaries)]

\* urwid.connect_signal(button, 'click', mp_chosen, mp): the summary the
\* button at a position of the list was made from is what its click passes
clicked_mp(summaries, position) == summaries[position - 1]

\* mp_chosen of lpmptox: CHOSEN_MP is set and the loop left; the finally
\* clause then calls runtox
lpmptox_mp_chosen ==
    /\ tool = "lpmptox"
    /\ pc = "loop"
    /\ widget = "mp_box"
    /\ focus >= 2
    /\ key' = "enter"
    /\ chosen_mp' = << clicked_mp(mp_summaries, focus) >>
    /\ pc' = "runtox"
    /\ UNCHANGED << inputs, call_state, tox_state, mp_summaries, widget, edit_text, focus,
                    directory, checkedout_branch, source_branch,
                    target_branch, mp_message_output, events, entered,
                    exit_code >>

\* TemporaryDirectory(), the path of local_repo
LocalRepo == "/tmp/t"

\* tox_command, the default of runtox
ToxCommand == "tox --recreate --parallel auto"

\* TemporaryDirectory.__exit__ with the workspace left in place
TemporaryDirectory_exit_Kept == UNCHANGED workspace

\* TemporaryDirectory.__exit__: leaving the with block of runtox, by a return
\* or by an exception, removes local_repo
TemporaryDirectory_exit == workspace' = "removed"

\* an exception leaves runtox and then lpmptox, which catches nothing
runtox_raises ==
    /\ TemporaryDirectory_exit
    /\ Uncaught
    /\ UNCHANGED runtox_returned

\* runtox returns `status` to the finally clause of lpmptox, which drops it:
\* the command ends as any click command that returns
runtox_returns(status) ==
    /\ TemporaryDirectory_exit
    /\ runtox_returned' = status
    /\ pc' = "done"
    /\ exit_code' = 0

\* runtox: git.Repo.clone_from into the temporary directory; a failed clone
\* raises
runtox ==
    /\ tool = "lpmptox"
    /\ pc = "runtox"
    /\ events' = Append(events, << "clone_from", chosen_mp[1].source_repo,
                                   chosen_mp[1].source_branch >>)
    /\ \E cloned \in BOOLEAN :
           IF cloned
           THEN /\ workspace' = "exists"
                /\ pc' = IF cli.environment # << >> THEN "lxc_container"
                         ELSE "tox_locally"
                /\ UNCHANGED << exit_code, runtox_returned >>
           ELSE runtox_raises
    /\ UNCHANGED << container_name, attempt, returncode >>
    /\ UNCHANGED << inputs, call_state, mp_summaries, widget, edit_text, focus,
                    directory, checkedout_branch, chosen_mp, source_branch,
                    target_branch, mp_message_output, entered, key >>
\* _run_tox_locally: the child runs to its end and its status is returned
_run_tox_locally ==
    /\ tool = "lpmptox"
    /\ pc = "tox_locally"
    /\ \/ \E status \in { 0, 1 } :
              /\ events' = Append(events, << "tox", ToString(status) >>)
              /\ returncode' = status
              /\ runtox_returns(status)
       \/ \* readline().decode('utf-8') raises on output that is not UTF-8
          /\ events' = Append(events, << "tox" >>)
          /\ runtox_raises
          /\ UNCHANGED returncode
    /\ UNCHANGED << container_name, attempt >>
    /\ UNCHANGED << inputs, call_state, mp_summaries, widget, edit_text, focus,
                    directory, checkedout_branch, chosen_mp, source_branch,
                    target_branch, mp_message_output, entered, key >>
-----------------------------------------------------------------------------
(* lxc.py: the container a test run of lpmptox is made in. *)

\* range(10) of wait_for_networking
NetworkingAttempts == 10
\* time.sleep(6) of wait_for_networking
SleepSeconds == 6

\* the names petname gives
PetNames == { "newt", "emu" }

\* LxcContainer.run_command: the command runs in the container to its end
\* and its status is returned, whatever it is
run_command(cmd, status) ==
    << "lxc exec", container_name, cmd, ToString(status) >>

\* run_command whose read loop raises: readline().decode('utf-8') fails on
\* output that is not UTF-8, and no status is returned
run_command_raises(cmd) == << "lxc exec", container_name, cmd >>

\* an exception inside the try block of lxc_container: the finally clause
\* is next
raise_in_container == pc' = "finally_raised"

\* lxc_container, up to the try block: petname names the container; when it
\* fails no container has a name and the exception leaves runtox
lxc_container ==
    /\ tool = "lpmptox"
    /\ pc = "lxc_container"
    /\ events' = Append(events, << "petname" >>)
    /\ \/ /\ \E pet \in PetNames : container_name' = "cpc-" \o pet
          /\ pc' = "LxcContainer"
          /\ UNCHANGED << workspace, exit_code, runtox_returned >>
       \/ /\ runtox_raises
          /\ UNCHANGED container_name
    /\ UNCHANGED << attempt, returncode >>
    /\ UNCHANGED << inputs, call_state, mp_summaries, widget, edit_text, focus,
                    directory, checkedout_branch, chosen_mp, source_branch,
                    target_branch, mp_message_output, entered, key >>
\* the check_output calls of LxcContainer.__init__ before the wait
LaunchCommands ==
    << << "lxc config get core.proxy_http" >>,
       << "lxc config get core.proxy_https" >>,
       << "lxc launch", "ubuntu:" \o cli.environment[1], container_name >> >>

\* LxcContainer.__init__, up to the launch: `n` commands are started and
\* the last of them is the one that can have failed
LxcContainer ==
    /\ tool = "lpmptox"
    /\ pc = "LxcContainer"
    /\ \E n \in 1..Len(LaunchCommands), ok \in BOOLEAN :
           /\ n < Len(LaunchCommands) => ~ok
           /\ events' = events \o SubSeq(LaunchCommands, 1, n)
           /\ IF ok THEN pc' = "wait_for_networking"
                    ELSE raise_in_container
    /\ UNCHANGED << tox_state, exit_code >>
    /\ UNCHANGED << inputs, call_state, mp_summaries, widget, edit_text, focus,
                    directory, checkedout_branch, chosen_mp, source_branch,
                    target_branch, mp_message_output, entered, key >>
\* the probe of wait_for_networking
Probe == "sh -c \"curl -s --head http://archive.ubuntu.com > /dev/null\""

\* a probe that is never taken for a success
NetworkUp_Never(status) == FALSE

\* the test of wait_for_networking on the status of a probe
NetworkUp(status) == status = 0

\* wait_for_networking: one turn of its loop; the turn that uses up the
\* range raises
wait_for_networking ==
    /\ tool = "lpmptox"
    /\ pc = "wait_for_networking"
    /\ attempt < NetworkingAttempts
    /\ \/ \E status \in { 0, 1 } :
              IF NetworkUp(status)
              THEN /\ events' = Append(events, run_command(Probe, status))
                   /\ pc' = "LxcContainer_env"
                   /\ UNCHANGED attempt
              ELSE /\ events' = events \o
                           << run_command(Probe, status),
                              << "sleep", ToString(SleepSeconds) >> >>
                   /\ attempt' = attempt + 1
                   /\ IF attempt + 1 < NetworkingAttempts
                      THEN UNCHANGED pc
                      ELSE raise_in_container
       \/ \* the probe raises while its output is read
          /\ events' = Append(events, run_command_raises(Probe))
          /\ raise_in_container
          /\ UNCHANGED attempt
    /\ UNCHANGED << workspace, container_name, returncode, runtox_returned,
                    exit_code >>
    /\ UNCHANGED << inputs, call_state, mp_summaries, widget, edit_text, focus,
                    directory, checkedout_branch, chosen_mp, source_branch,
                    target_branch, mp_message_output, entered, key >>
\* the check_output calls of LxcContainer.__init__ after the wait
EnvCommands ==
    << << "lxc exec", container_name, "whoami" >>,
       << "lxc exec", container_name, "pwd" >>,
       << "lxc exec", container_name, "env" >>,
       << "sudo lxc exec", container_name, "sudo env" >>,
       << "sudo lxc exec", container_name, "sudo --preserve-env env" >> >>

\* LxcContainer.__init__, after the wait
LxcContainer_env ==
    /\ tool = "lpmptox"
    /\ pc = "LxcContainer_env"
    /\ \E n \in 1..Len(EnvCommands), ok \in BOOLEAN :
           /\ n < Len(EnvCommands) => ~ok
           /\ events' = events \o SubSeq(EnvCommands, 1, n)
           /\ IF ok THEN pc' = "setup_code_directory"
                    ELSE raise_in_container
    /\ UNCHANGED << tox_state, exit_code >>
    /\ UNCHANGED << inputs, call_state, mp_summaries, widget, edit_text, focus,
                    directory, checkedout_branch, chosen_mp, source_branch,
                    target_branch, mp_message_output, entered, key >>
PushCommands_CredentialsOnly ==
    << << "lxc file push", "~/.ssh", container_name >>,
       << "lxc file push", "~/.gitconfig", container_name >> >>

\* the check_call calls of setup_code_directory
PushCommands ==
    << << "lxc file push", LocalRepo, container_name \o "/tmp" >>,
       << "lxc file push", "~/.ssh", container_name >>,
       << "lxc file push", "~/.gitconfig", container_name >> >>

\* setup_code_directory: the workspace and the credentials are pushed, then
\* the home directory changes its owner, with whatever status
setup_code_directory ==
    /\ tool = "lpmptox"
    /\ pc = "setup_code_directory"
    /\ \/ \E n \in 1..Len(PushCommands), ok \in BOOLEAN, status \in { 0, 1 } :
              /\ n < Len(PushCommands) => ~ok
              /\ IF ok
                 THEN /\ events' = events \o SubSeq(PushCommands, 1, n) \o
                                       << run_command("chown -R", status) >>
                      /\ pc' = "tox_in_lxc"
                 ELSE /\ status = 1
                      /\ events' = events \o SubSeq(PushCommands, 1, n)
                      /\ raise_in_container
       \/ \* chown raises while its output is read
          /\ events' = events \o PushCommands \o
                           << run_command_raises("chown -R") >>
          /\ raise_in_container
    /\ UNCHANGED << tox_state, exit_code >>
    /\ UNCHANGED << inputs, call_state, mp_summaries, widget, edit_text, focus,
                    directory, checkedout_branch, chosen_mp, source_branch,
                    target_branch, mp_message_output, entered, key >>
\* the commands of _run_tox_in_lxc before the test command
SetupCommands ==
    << "sudo apt-get update", "sudo apt-get install -y python3-pip",
       "sudo pip3 install tox" >>

_run_tox_in_lxc_return_AnyFailure(setup, status) ==
    IF \E i \in 1..Len(setup) : setup[i] # 0 THEN 1 ELSE status

\* return container.run_command(tox_command + ' -c ' + local_repo): of the
\* statuses of the commands run in the container, the one that is returned
_run_tox_in_lxc_return(setup, status) == status

\* _run_tox_in_lxc, inside the with block: the three commands that install
\* tox, whose statuses nothing reads, then the test command, whose status is
\* returned; reading the output of any of the four can raise
_run_tox_in_lxc ==
    /\ tool = "lpmptox"
    /\ pc = "tox_in_lxc"
    /\ \E s \in [1..Len(SetupCommands) -> { 0, 1 }], status \in { 0, 1 } :
           LET setup == [i \in 1..Len(SetupCommands) |->
                            run_command(SetupCommands[i], s[i])]
               test == ToxCommand \o " -c " \o LocalRepo
           IN  \/ /\ events' = events \o setup \o
                                   << run_command(test, status) >>
                  /\ returncode' = _run_tox_in_lxc_return(s, status)
                  /\ pc' = "finally"
               \/ /\ status = 1
                  /\ events' = events \o setup \o
                                   << run_command_raises(test) >>
                  /\ raise_in_container
                  /\ UNCHANGED returncode
               \/ \* a command that installs tox raises while its output
                  \* is read: the ones before it have ended
                  /\ status = 1
                  /\ \E k \in 1..Len(SetupCommands) :
                         /\ \A i \in k..Len(SetupCommands) : s[i] = 1
                         /\ events' = events \o SubSeq(setup, 1, k - 1) \o
                                << run_command_raises(SetupCommands[k]) >>
                  /\ raise_in_container
                  /\ UNCHANGED returncode
    /\ UNCHANGED << workspace, container_name, attempt, runtox_returned,
                    exit_code >>
    /\ UNCHANGED << inputs, call_state, mp_summaries, widget, edit_text, focus,
                    directory, checkedout_branch, chosen_mp, source_branch,
                    target_branch, mp_message_output, entered, key >>
\* a finally clause that is passed over when the block raised
Teardown_OnSuccessOnly(raised) ==
    IF raised THEN << >>
    ELSE << << "lxc delete --force", container_name >> >>

\* the call of the finally clause of lxc_container
Teardown(raised) == << << "lxc delete --force", container_name >> >>

\* lxc_container, the finally clause: the container is deleted; then the
\* exception of the block goes on, or the one of a failed deletion, or
\* _run_tox_in_lxc and runtox return the status of the test command
lxc_container_finally ==
    /\ tool = "lpmptox"
    /\ pc \in { "finally", "finally_raised" }
    /\ events' = events \o Teardown(pc = "finally_raised")
    /\ \E deleted \in BOOLEAN :
           IF pc = "finally" /\ deleted
           THEN runtox_returns(returncode)
           ELSE runtox_raises
    /\ UNCHANGED << container_name, attempt, returncode >>
    /\ UNCHANGED << inputs, call_state, mp_summaries, widget, edit_text, focus,
                    directory, checkedout_branch, chosen_mp, source_branch,
                    target_branch, mp_message_output, entered, key >>
-----------------------------------------------------------------------------
(* lpmpmessage.py: the tool that prints the commit message. *)

\* LPMPMessageApp.run, the first statement of lpmpmessage
LPMPMessageApp_run ==
    /\ tool = "lpmpmessage"
    /\ pc = "start"
    /\ pc' = "app_closed"
    /\ events' = Append(events, << "LPMPMessageApp.run" >>)
    /\ UNCHANGED << inputs, call_state, tox_state, mp_summaries, widget, edit_text, focus,
                    directory, checkedout_branch, chosen_mp, source_branch,
                    target_branch, mp_message_output, entered, key,
                    exit_code >>

\* lpmpmessage, from the fetch on: the module does not import urwid, so
\* with proposals urwid.SimpleFocusListWalker raises NameError before a list
\* is built or a loop started; without proposals the explanation is printed
lpmpmessage ==
    /\ tool = "lpmpmessage"
    /\ pc = "app_closed"
    /\ mp_summaries' = summarize_all_mps(mps)
    /\ IF summarize_all_mps(mps) # << >>
       THEN /\ events' = Append(events, << "getMergeProposals" >>)
            /\ Uncaught
            /\ UNCHANGED << widget, entered, focus >>
       ELSE /\ events' = events \o << << "getMergeProposals" >>,
                                      << "print", NoProposalsText >> >>
            /\ ExitMainLoop
            /\ UNCHANGED << widget, entered, focus >>
    /\ UNCHANGED << inputs, call_state, tox_state, edit_text, directory, checkedout_branch,
                    chosen_mp, source_branch, target_branch,
                    mp_message_output, key >>

-----------------------------------------------------------------------------

Next ==
    \/ lpshipit
    \/ GetDirectoryBox_type
    \/ GetDirectoryBox_enter
    \/ ListBox_move
    \/ click_mp
    \/ click_source_branch
    \/ click_target_branch
    \/ urwid_exit_on_q
    \/ urwid_exit_program
    \/ lpmptox
    \/ lpmptox_mp_chosen
    \/ runtox
    \/ _run_tox_locally
    \/ lxc_container
    \/ LxcContainer
    \/ wait_for_networking
    \/ LxcContainer_env
    \/ setup_code_directory
    \/ _run_tox_in_lxc
    \/ lxc_container_finally
    \/ LPMPMessageApp_run
    \/ lpmpmessage

Spec == Init /\ [][Next]_vars

\* A run of lpmptox alone. Once a proposal is picked the process is
\* sequential and every call it makes blocks until the child has ended, so
\* the steps of the test run are taken as long as one is possible; the
\* steps the user takes at the picker carry no such promise.
InitTox == Init /\ tool = "lpmptox"

TestRun ==
    \/ runtox
    \/ _run_tox_locally
    \/ lxc_container
    \/ LxcContainer
    \/ wait_for_networking
    \/ LxcContainer_env
    \/ setup_code_directory
    \/ _run_tox_in_lxc
    \/ lxc_container_finally

NextTox ==
    \/ lpmptox
    \/ ListBox_move
    \/ urwid_exit_on_q
    \/ lpmptox_mp_chosen
    \/ TestRun

SpecTox == InitTox /\ [][NextTox]_vars /\ WF_vars(TestRun)

-----------------------------------------------------------------------------
(* The summarizers on their own: a batch is drawn and one of them is called
   on it. `mps` is the batch, `tool` the summarizer, `cli` holds the
   arguments of the call beside the batch, `mp_summaries` is what the call
   returns, and `pc` tells whether it returned or raised. *)

\* most votes on the first proposal of a batch, whose votes are drawn
MaxVotes == 2

\* the votes a proposal can carry; a pending vote has no comment
VoteValues ==
    { [reviewer |-> "carol", is_pending |-> FALSE, vote |-> "Approve"],
      [reviewer |-> "bob", is_pending |-> FALSE, vote |-> "Needs Fixing"],
      [reviewer |-> "bob", is_pending |-> FALSE, vote |-> "Approve"],
      [reviewer |-> "alice", is_pending |-> TRUE, vote |-> ""] }

VoteLists == UNION { [1..n -> VoteValues] : n \in 0..MaxVotes }

\* what a raw proposal can be: git-backed, branch-based, git-backed without
\* a registrant, or with neither a git repository nor branches
Kinds == { "git", "bzr", "no_registrant", "no_branches" }

\* mp.date_created
DateValues == { 1, 2 }

\* The i-th raw proposal of a drawn batch.
RawOf(i, kind, date, votes) ==
    [ RawAt(i, kind \in { "git", "no_registrant" }) EXCEPT
        !.votes = votes,
        !.date_created = date,
        !.registrant = IF kind = "no_registrant" THEN "" ELSE @,
        !.source_branch_name = IF kind = "no_branches" THEN "" ELSE @,
        !.target_branch_name = IF kind = "no_branches" THEN "" ELSE @ ]

\* The batch a summarizer is called on: its length, and the kind, the date
\* and the votes of its proposals.
SummBatch(n, kinds, dates, votes) ==
    [i \in 1..n |->
        RawOf(i, kinds[i], dates[i], IF i = 1 THEN votes ELSE VotesAt(i))]

Summarizers == { "summarize_mps", "summarize_all_mps", "summarize" }

InitSumm ==
    /\ tool \in Summarizers
    /\ \E n \in 0..MaxMps :
           \E kinds \in [1..n -> Kinds], dates \in [1..n -> DateValues] :
               \E votes \in IF n = 0 THEN { << >> } ELSE VoteLists :
                   mps = SummBatch(n, kinds, dates, votes)
    /\ cli \in { [approvals_only |-> b] :
                   b \in IF tool = "summarize" THEN BOOLEAN ELSE { FALSE } }
    /\ local_branches = << >>
    /\ active_branch = ""
    /\ pc = "start"
    /\ mp_summaries = << >>
    /\ widget = "none"
    /\ edit_text = << >>
    /\ focus = 0
    /\ directory = << >>
    /\ checkedout_branch = ""
    /\ chosen_mp = << >>
    /\ source_branch = ""
    /\ target_branch = ""
    /\ mp_message_output = ""
    /\ events = << >>
    /\ entered = [w \in Widgets |-> 0]
    /\ key = ""
    /\ exit_code = -1
    /\ workspace = "none"
    /\ container_name = ""
    /\ attempt = 0
    /\ returncode = -1
    /\ runtox_returned = -1
    /\ args = << >>
    /\ retval = << >>
    /\ picker = << >>

\* mp.registrant is None: mp.registrant.name raises AttributeError
NoRegistrant(mp) == mp.registrant = ""

\* mp.source_branch is None on a proposal without a source_git_repository:
\* mp.source_branch.display_name raises AttributeError
NoBranches(mp) ==
    ~mp.git /\ (mp.source_branch_name = "" \/ mp.target_branch_name = "")

\* summarize_mps raises: it reads the registrant of the git-backed proposals
summarize_mps_raises(batch) ==
    \E i \in 1..Len(batch) : batch[i].git /\ NoRegistrant(batch[i])

\* summarize_all_mps raises: it reads the branches or the git refs, and the
\* registrant, of every proposal
summarize_all_mps_raises(batch) ==
    \E i \in 1..Len(batch) : NoBranches(batch[i]) \/ NoRegistrant(batch[i])

\* a call of a summarizer ends: it returns `result`, or an exception leaves it
Returns(raises, result) ==
    /\ pc = "start"
    /\ IF raises
       THEN /\ pc' = "raised"
            /\ UNCHANGED mp_summaries
       ELSE /\ pc' = "done"
            /\ mp_summaries' = result
    /\ UNCHANGED << inputs, call_state, tox_state, widget, edit_text, focus, directory,
                    checkedout_branch, chosen_mp, source_branch,
                    target_branch, mp_message_output, events, entered, key,
                    exit_code >>

call_summarize_mps ==
    /\ tool = "summarize_mps"
    /\ Returns(summarize_mps_raises(mps), summarize_mps(mps))

call_summarize_all_mps ==
    /\ tool = "summarize_all_mps"
    /\ Returns(summarize_all_mps_raises(mps), summarize_all_mps(mps))

\* the summarizer that takes approvals_only fails on a proposal without a
\* registrant or without both pairs
call_summarize ==
    /\ tool = "summarize"
    /\ Returns(summarize_all_mps_raises(mps),
               summarize(mps, cli.approvals_only))

NextSumm ==
    \/ call_summarize_mps
    \/ call_summarize_all_mps
    \/ call_summarize

SpecSumm == InitSumm /\ [][NextSumm]_vars

-----------------------------------------------------------------------------
(* The states of the merge flow, and what a run has done so far. *)

Range(s) == { s[i] : i \in 1..Len(s) }

\* the position of a branch in a branch list, 0 when it is not in it
IndexOf(branches, b) ==
    IF b \in Range(branches)
    THEN CHOOSE i \in 1..Len(branches) : branches[i] = b
    ELSE 0

IsMerge(e) == Len(e) >= 2 /\ e[1] = "git" /\ e[2] = "merge"
IsCheckout(e) == e[1] = "checkout"
IsRepoOpen(e) == e[1] = "Repo"
IsFetch(e) == e[1] = "getMergeProposals"
IsPrint(e) == e[1] = "print"
IsClone(e) == e[1] = "clone_from"
IsContainer(e) == e[1] = "lxc launch"
IsDelete(e) == e[1] = "lxc delete --force"
IsProbe(e) == Len(e) >= 3 /\ e[1] = "lxc exec" /\ e[3] = Probe
IsSleep(e) == e[1] = "sleep"

Count(P(_)) == Cardinality({ i \in 1..Len(events) : P(events[i]) })

MergeFlow == tool = "lpshipit"
\* a picker is a state of the flow while the main loop runs with it
ChoosingProposal == MergeFlow /\ pc = "loop" /\ widget = "mp_box"
ChoosingSourceBranch ==
    MergeFlow /\ pc = "loop" /\ widget = "source_branch_box"
ChoosingTargetBranch ==
    MergeFlow /\ pc = "loop" /\ widget = "target_branch_box"
Confirmed == MergeFlow /\ widget = "merge_summary_box"
Rejected == MergeFlow /\ widget = "error_box_same_branch"
InvalidDirectory == MergeFlow /\ widget = "error_box_directory"
Pickers == { "mp_box", "source_branch_box", "target_branch_box" }
Finished == pc \in { "done", "crashed" }

\* the commit message the convention asks for, from the chosen proposal
ConventionMessage ==
    "Merge " \o source_branch \o " into " \o target_branch
    \o " [a=" \o chosen_mp[1].author \o "] [r="
    \o Join(chosen_mp[1].reviewers, ",") \o "]\n\n"
    \o chosen_mp[1].commit_message \o "\n\nMP: " \o chosen_mp[1].web

\* the branch a picker focuses by the rule "the proposal's branch, else
\* the checked-out branch, else the first entry"; f is the focus position
FocusIsOn(f, mp_branch, with_checkedout) ==
    IF mp_branch \in Range(local_branches)
    THEN f >= 2 /\ local_branches[f - 1] = mp_branch
    ELSE IF with_checkedout /\ checkedout_branch # ""
            /\ checkedout_branch \in Range(local_branches)
    THEN f >= 2 /\ local_branches[f - 1] = checkedout_branch
    ELSE f = IF local_branches # << >> THEN 2 ELSE 0

-----------------------------------------------------------------------------
(* The claims. *)

\* C1: when the target that is decided equals the source, no checkout and
\* no merge is ever invoked, and the flow is in Rejected (the same-branch
\* error), however the two branches were obtained.
C1_SameBranchRejected ==
    (MergeFlow /\ target_branch # "" /\ source_branch = target_branch)
        => /\ Rejected
           /\ entered["error_box_same_branch"] = 1
           /\ entered["merge_summary_box"] = 0
           /\ pc # "crashed"
           /\ \A i \in 1..Len(events) :
                  ~IsMerge(events[i]) /\ ~IsCheckout(events[i])

\* C1 witness: both branches were picked in the pickers, they are equal,
\* and the error is shown.
C1_Witness ==
    /\ Rejected
    /\ cli.source_branch = "" /\ cli.target_branch = ""
    /\ entered["source_branch_box"] = 1 /\ entered["target_branch_box"] = 1
    /\ source_branch = target_branch /\ target_branch # ""

\* C2: every merge is the --no-ff merge of the chosen source with the
\* message built from the chosen proposal, the call right before it is the
\* checkout of the chosen target and the one before that built the message;
\* a run in Confirmed has made exactly one merge; nothing is ever pushed.
C2_CheckoutThenMerge ==
    MergeFlow =>
        /\ \A k \in 1..Len(events) :
               IsMerge(events[k]) =>
                   /\ k >= 3
                   /\ events[k] = << "git", "merge", "--no-ff",
                                     source_branch, "-m", ConventionMessage >>
                   /\ events[k - 1] = << "checkout", target_branch >>
                   /\ events[k - 2] = << "build_commit_msg",
                                         ConventionMessage >>
        /\ Confirmed => /\ Count(IsMerge) = 1
                        /\ Count(IsCheckout) = 1
                        /\ source_branch # target_branch
        /\ \A i \in 1..Len(events) : "push" \notin Range(events[i])

\* C2 witness: the merge summary is shown after a merge of two branches
\* picked in the pickers.
C2_Witness ==
    /\ Confirmed
    /\ Count(IsMerge) = 1
    /\ entered["source_branch_box"] = 1 /\ entered["target_branch_box"] = 1

\* C3: with --source-branch and --target-branch both given, no branch
\* picker is ever shown, and choosing the proposal goes straight to the
\* terminal check with exactly the given values: the same-branch error, or
\* the checkout of the given target and the merge of the given source.
C3_SuppliedBranchesSkipPickers ==
    (MergeFlow /\ cli.source_branch # "" /\ cli.target_branch # "")
        => /\ entered["source_branch_box"] = 0
           /\ entered["target_branch_box"] = 0
           /\ chosen_mp # << >> =>
                  /\ source_branch = cli.source_branch
                  /\ target_branch = cli.target_branch
                  /\ Confirmed \/ Rejected \/ pc = "crashed"
                  /\ Rejected <=> cli.source_branch = cli.target_branch
                  /\ Confirmed => Count(IsMerge) = 1
           /\ \A i \in 1..Len(events) :
                  /\ IsCheckout(events[i]) => events[i][2] = cli.target_branch
                  /\ IsMerge(events[i]) => events[i][4] = cli.source_branch

\* C3 witness: both branches were given, and the merge of the given source
\* into the given target went through.
C3_Witness ==
    /\ Confirmed
    /\ cli.source_branch # "" /\ cli.target_branch # ""
    /\ \E i \in 1..Len(events) :
           IsMerge(events[i]) /\ events[i][4] = cli.source_branch

\* C4 as claimed: in every prompt shown before the merge is executed or
\* rejected (the directory prompt and the three pickers), the key q or Q
\* ends the run, and the run has then made no checkout and no merge.
C4_QuitFromEveryPrompt ==
    [][ ( /\ MergeFlow
          /\ pc = "loop"
          /\ widget \in Pickers \cup { "directory_q" }
          /\ key' \in { "q", "Q" } )
        => ( /\ pc' = "done"
             /\ Count(IsMerge)' = 0
             /\ Count(IsCheckout)' = 0 ) ]_vars

\* C5 as claimed: a run whose summary list is empty prints the explanation,
\* exits with a status that is not 0, and has opened no repository, made no
\* checkout, merge or clone and provisioned no container.
C5_NoProposalsExitsNonZero ==
    ( /\ Finished
      /\ Count(IsFetch) = 1
      /\ mp_summaries = << >> )
        => /\ Count(IsPrint) = 1
           /\ exit_code # 0
           /\ \A i \in 1..Len(events) :
                  /\ ~IsRepoOpen(events[i])
                  /\ ~IsCheckout(events[i])
                  /\ ~IsMerge(events[i])
                  /\ ~IsClone(events[i])
                  /\ ~IsContainer(events[i])

\* C6 as claimed: when the path of the merge tool is not a directory, the
\* error is shown before any fetch of merge proposals, no repository is
\* opened and nothing merged, and the run exits with a status that is not 0.
C6_InvalidDirectoryBeforeFetch ==
    InvalidDirectory
        => /\ Count(IsFetch) = 0
           /\ Count(IsRepoOpen) = 0
           /\ Count(IsMerge) = 0
           /\ Finished => exit_code # 0

\* C7 as claimed: with --directory given (a repository) and at least one
\* summary, the run does not end without having shown the proposal picker.
C7_DirectoryOverrideContinues ==
    ( /\ MergeFlow
      /\ cli.directory \in GitRepos
      /\ mp_summaries # << >>
      /\ Finished )
        => entered["mp_box"] >= 1

\* C8: when the source picker is shown, its focus is on the branch named
\* like the chosen proposal's source_branch if that is a local branch
\* (wherever the checked-out branch is in the list), else on the checked-out
\* branch if it is a local branch, else on the first entry.
C8_SourceFocus ==
    (ChoosingSourceBranch /\ key = "enter")
        => FocusIsOn(focus, chosen_mp[1].source_branch, TRUE)

\* C8 witness: the checked-out branch comes before the proposal's source
\* branch in the list, and the focus is on the proposal's source branch.
C8_Witness ==
    /\ ChoosingSourceBranch /\ key = "enter"
    /\ IndexOf(local_branches, checkedout_branch) >= 1
    /\ IndexOf(local_branches, chosen_mp[1].source_branch)
           > IndexOf(local_branches, checkedout_branch)
    /\ local_branches[focus - 1] = chosen_mp[1].source_branch

\* C9 as claimed: when the target picker is shown, its focus is on the
\* proposal's target_branch if that is a local branch, and else on the
\* first entry, never on the checked-out branch.
C9_TargetFocusFirstEntry ==
    (ChoosingTargetBranch /\ key = "enter")
        => FocusIsOn(focus, chosen_mp[1].target_branch, FALSE)

\* C9 as amended: when the target picker is shown, its focus is on the
\* proposal's target_branch if that is a local branch, else on the
\* checked-out branch if it is a local branch, else on the first entry.
C9_TargetFocus ==
    (ChoosingTargetBranch /\ key = "enter")
        => FocusIsOn(focus, chosen_mp[1].target_branch, TRUE)

\* C9 witness: the proposal's target branch is no local branch, the
\* checked-out branch is one and not the first, and it has the focus.
C9_Witness ==
    /\ ChoosingTargetBranch /\ key = "enter"
    /\ chosen_mp[1].target_branch \notin Range(local_branches)
    /\ IndexOf(local_branches, checkedout_branch) >= 2
    /\ local_branches[focus - 1] = checkedout_branch

\* C10: in a run of the merge flow each picker is entered at most once, a
\* picker is never shown again once its selection is made, and the merge
\* command is invoked at most once.
C10_EachStateOnce ==
    MergeFlow =>
        /\ \A w \in Pickers : entered[w] <= 1
        /\ chosen_mp # << >> => ~ChoosingProposal
        /\ source_branch # "" => ~ChoosingProposal /\ ~ChoosingSourceBranch
        /\ target_branch # "" =>
               ~ChoosingProposal /\ ~ChoosingSourceBranch
                                 /\ ~ChoosingTargetBranch
        /\ Count(IsMerge) <= 1

\* C10 witness: a run went through all three pickers and merged.
C10_Witness ==
    /\ Confirmed
    /\ \A w \in Pickers : entered[w] = 1
    /\ Count(IsMerge) = 1

-----------------------------------------------------------------------------
(* The test run of lpmptox. *)

\* the container has a name
Named == container_name # ""

\* C11: in a test run in a container the forced deletion is never called
\* twice and never for another name than the generated one, and once the
\* name is generated the deletion of that container is called, whichever way
\* the block is left: by the return of the test command's status, by a
\* failure to launch, by the networking wait running out, by a failed push of
\* the workspace, or by an exception while the commands run.
C11_TeardownOnce ==
    /\ [](Count(IsDelete) <= 1)
    /\ [](\A i \in 1..Len(events) :
              IsDelete(events[i]) => Named /\ events[i][2] = container_name)
    /\ (Named ~> (Count(IsDelete) = 1))

\* the networking wait ran out, the deletion was called and the run is over
C11_Witness ==
    /\ Named
    /\ attempt = NetworkingAttempts
    /\ pc = "crashed"
    /\ Count(IsDelete) = 1
    /\ events[Len(events)] = << "lxc delete --force", container_name >>

\* runtox was entered: its first call on a collaborator is the clone
RuntoxEntered == Count(IsClone) > 0

\* C12: when a run that entered runtox is over, by a failed clone, by the
\* return of the status of a local or a container test run, or by any
\* exception on the way, the temporary workspace of the clone is removed;
\* it exists only while runtox runs, and it is gone when runtox has returned.
C12_WorkspaceRemoved ==
    /\ (Finished /\ RuntoxEntered) => workspace = "removed"
    /\ workspace = "exists" => ~Finished /\ runtox_returned = -1
    /\ runtox_returned # -1 => workspace = "removed"

\* a test run in a container returned a failing status and the workspace is
\* gone
C12_Witness ==
    /\ pc = "done"
    /\ Named
    /\ runtox_returned = 1
    /\ workspace = "removed"

\* the probes of the networking wait that failed: their status is not 0
FailedProbes ==
    { i \in 1..Len(events) :
          IsProbe(events[i]) /\ Len(events[i]) = 4 /\ events[i][4] # "0" }

\* what provisioning does after the networking wait, and the test run
AfterWait(e) ==
    \/ e \in Range(EnvCommands)
    \/ e \in Range(PushCommands)
    \/ e[1] = "lxc exec" /\ Len(e) = 4 /\ e[3] # Probe

\* C13: the networking wait makes at most 10 probes; a probe that exits 0
\* (or that raises while its output is read) is the last one and no sleep
\* follows it; a sleep is of the fixed interval
\* and comes right after a failed probe, one for each; and when all 10
\* probes failed the wait has raised: nothing further is provisioned and no
\* command is run in the container, only the finally clause is left.
C13_NetworkingWaitBounded ==
    /\ Count(IsProbe) <= NetworkingAttempts
    /\ Count(IsProbe) <= 10
    /\ \A i \in 1..Len(events) :
           /\ (IsProbe(events[i]) /\ i \notin FailedProbes)
                  => /\ \A j \in (i + 1)..Len(events) :
                            ~IsProbe(events[j]) /\ ~IsSleep(events[j])
                     /\ pc # "wait_for_networking"
           /\ i \in FailedProbes
                  => i < Len(events) /\ IsSleep(events[i + 1])
           /\ IsSleep(events[i])
                  => /\ events[i] = << "sleep", "6" >>
                     /\ i - 1 \in FailedProbes
    /\ Cardinality(FailedProbes) = attempt
    /\ Cardinality(FailedProbes) = 10
           => /\ pc \in { "finally_raised", "crashed" }
              /\ \A i \in 1..Len(events) : ~AfterWait(events[i])

\* all 10 probes failed and the wait has just raised
C13_Witness ==
    /\ Cardinality(FailedProbes) = 10
    /\ Count(IsSleep) = 10
    /\ pc = "finally_raised"
    /\ Count(IsDelete) = 0

-----------------------------------------------------------------------------
(* Child commands and the exit status. *)

\* the merge command was run and the run crashed on it
MergeFailed ==
    /\ pc = "crashed"
    /\ Len(events) > 0
    /\ IsMerge(events[Len(events)])

\* the clone was run and the run crashed on it
CloneFailed ==
    /\ pc = "crashed"
    /\ Len(events) > 0
    /\ IsClone(events[Len(events)])

\* the test command ended with a status that is not 0
TestFailed == returncode > 0

\* C14 as claimed: when the merge command, the clone or the test command
\* has failed, the run does not end with exit status 0.
C14_ChildFailurePropagated ==
    (Finished /\ (MergeFailed \/ CloneFailed \/ TestFailed))
        => exit_code # 0

-----------------------------------------------------------------------------
(* The summarizers. *)

\* the summarizers of the source
CodeSummarizers == { "summarize_mps", "summarize_all_mps" }

\* a summarizer of the source was called and has returned its list
Returned == tool \in CodeSummarizers /\ pc = "done"

\* the place in the batch of the proposal a summary was made from: the web
\* link of the i-th proposal of a batch is its own
PosOf(s) == CHOOSE i \in 1..Len(mps) : mps[i].web_link = s.web

\* the summaries made from the i-th proposal of the batch
SummariesOf(i) ==
    { j \in 1..Len(mp_summaries) : mp_summaries[j].web = mps[i].web_link }

\* the votes on a proposal that are not pending
Decided(mp) == { k \in 1..Len(mp.votes) : ~mp.votes[k].is_pending }

\* the votes on a proposal that are not pending and approve
Approvals(mp) == { k \in Decided(mp) : mp.votes[k].vote = "Approve" }

\* how often a name is in a list of names
Times(names, n) == Cardinality({ k \in 1..Len(names) : names[k] = n })

\* C15: the list a summarizer returns is ordered by date_created, newest
\* first, and two summaries of the same date are in the order their
\* proposals had in the batch.
C15_NewestFirstStable ==
    Returned =>
        \A i, j \in 1..Len(mp_summaries) :
            i < j =>
                /\ mp_summaries[i].date_created >= mp_summaries[j].date_created
                /\ mp_summaries[i].date_created = mp_summaries[j].date_created
                       => PosOf(mp_summaries[i]) < PosOf(mp_summaries[j])

\* two proposals of the same date were summarized and kept their order
C15_Witness ==
    /\ Returned
    /\ Len(mp_summaries) = 2
    /\ mp_summaries[1].date_created = mp_summaries[2].date_created
    /\ PosOf(mp_summaries[1]) = 1

\* C16: in every summary, reviewers is in lexicographic order and holds the
\* reviewer of each vote that is not pending, once per such vote (a name is
\* as often in it as it has such votes, so pending votes add nothing and
\* nothing is deduplicated), whatever the vote says; so the reviewer of
\* every approving vote that is not pending is in it.
C16_ReviewersSortedAllDecided ==
    Returned =>
        \A j \in 1..Len(mp_summaries) :
            LET s == mp_summaries[j]
                mp == mps[PosOf(s)]
            IN  /\ \A a, b \in 1..Len(s.reviewers) :
                       a < b => NameRank(s.reviewers[a])
                                    <= NameRank(s.reviewers[b])
                /\ \A n \in Range(NameOrder) :
                       Times(s.reviewers, n) =
                           Cardinality({ k \in Decided(mp) :
                                           mp.votes[k].reviewer = n })
                /\ Len(s.reviewers) = Cardinality(Decided(mp))
                /\ \A k \in Approvals(mp) :
                       mp.votes[k].reviewer \in Range(s.reviewers)

\* an approving vote came before a vote that asks for fixes: both reviewers
\* are listed, in the order of their names
C16_Witness ==
    /\ Returned
    /\ Len(mps) >= 1
    /\ Len(mps[1].votes) = 2
    /\ mps[1].votes[1].reviewer = "carol"
    /\ mps[1].votes[2].vote = "Needs Fixing"
    /\ \E j \in SummariesOf(1) :
           mp_summaries[j].reviewers = << "bob", "carol" >>

\* C17: in every summary, approval_count is the number of votes that are not
\* pending and whose value is "Approve": pending votes add nothing, the
\* count is at most the length of reviewers, and it is at least 1 when such
\* a vote exists.
C17_ApprovalCount ==
    Returned =>
        \A j \in 1..Len(mp_summaries) :
            LET s == mp_summaries[j]
                mp == mps[PosOf(s)]
            IN  /\ s.approval_count = Cardinality(Approvals(mp))
                /\ s.approval_count <= Len(s.reviewers)
                /\ Approvals(mp) # { } => s.approval_count >= 1

\* a pending vote and an approving one: one approval, one reviewer
C17_Witness ==
    /\ Returned
    /\ Len(mps) >= 1
    /\ Len(mps[1].votes) = 2
    /\ mps[1].votes[1].is_pending
    /\ mps[1].votes[2].vote = "Approve"
    /\ \E j \in SummariesOf(1) :
           /\ mp_summaries[j].approval_count = 1
           /\ mp_summaries[j].reviewers = << mps[1].votes[2].reviewer >>

\* the proposal has what a summary is made of: a registrant, and the pair
\* of git refs or the pair of branches
WellFormed(mp) == ~NoRegistrant(mp) /\ ~NoBranches(mp)

\* the summary has the branches and the repositories of the proposal: of a
\* git-backed one the refs without 'refs/heads/', of another the display
\* names of its branches and no repository
BranchesOf(s, mp) ==
    IF mp.git
    THEN /\ "refs/heads/" \o s.source_branch = Join(mp.source_git_path, "/")
         /\ "refs/heads/" \o s.target_branch = Join(mp.target_git_path, "/")
    ELSE /\ s.source_branch = mp.source_branch_name
         /\ s.target_branch = mp.target_branch_name
         /\ s.source_repo = ""
         /\ s.target_repo = ""

\* C18 as claimed: a summarizer returns exactly one summary for every
\* well-formed proposal of the batch, git-backed or not, with the branches
\* and repositories of that proposal.
C18_OneSummaryEach ==
    (Returned /\ \A i \in 1..Len(mps) : WellFormed(mps[i])) =>
        \A i \in 1..Len(mps) :
            /\ Cardinality(SummariesOf(i)) = 1
            /\ \A j \in SummariesOf(i) : BranchesOf(mp_summaries[j], mps[i])

\* C18: summarize_all_mps returns exactly one summary for every well-formed
\* proposal of the batch, git-backed or not; summarize_mps of the merge tool
\* returns exactly one for every git-backed proposal and none for another.
\* Each summary has the branches and repositories of its proposal.
C18_OneSummaryEachCovered ==
    (Returned /\ \A i \in 1..Len(mps) : WellFormed(mps[i])) =>
        \A i \in 1..Len(mps) :
            /\ Cardinality(SummariesOf(i)) =
                   IF tool = "summarize_mps" /\ ~mps[i].git THEN 0 ELSE 1
            /\ \A j \in SummariesOf(i) : BranchesOf(mp_summaries[j], mps[i])

\* summarize_all_mps summarized a git-backed proposal and one that is not
C18_Witness ==
    /\ Returned
    /\ tool = "summarize_all_mps"
    /\ Len(mps) = 2
    /\ mps[1].git
    /\ ~mps[2].git
    /\ Len(mp_summaries) = 2
    /\ \E j \in SummariesOf(2) : mp_summaries[j].source_repo = ""

\* the proposals a summarizer makes summaries of: summarize_mps of the merge
\* tool passes over those that are not git-backed
Covered(mp) == tool = "summarize_mps" => mp.git

\* C19 as claimed: when a proposal of the batch is malformed (no registrant,
\* or neither the pair of git refs nor the pair of branches), the call of
\* the summarizer still returns: that proposal has no summary and every
\* other proposal the summarizer covers has one.
C19_MalformedExcluded ==
    ( /\ tool \in CodeSummarizers
      /\ pc # "start"
      /\ \E i \in 1..Len(mps) : ~WellFormed(mps[i]) )
        => /\ pc = "done"
           /\ \A i \in 1..Len(mps) :
                  Cardinality(SummariesOf(i)) =
                      IF WellFormed(mps[i]) /\ Covered(mps[i]) THEN 1 ELSE 0

\* C20: when approvals_only is true, reviewers of every summary holds the
\* reviewer of each vote that is not pending and is "Approve", once per such
\* vote, in lexicographic order, and no other name; its length is
\* approval_count.
C20_ApprovalsOnly ==
    (tool = "summarize" /\ pc = "done" /\ cli.approvals_only) =>
        \A j \in 1..Len(mp_summaries) :
            LET s == mp_summaries[j]
                mp == mps[PosOf(s)]
            IN  /\ \A n \in Range(NameOrder) :
                       Times(s.reviewers, n) =
                           Cardinality({ k \in Approvals(mp) :
                                           mp.votes[k].reviewer = n })
                /\ \A a, b \in 1..Len(s.reviewers) :
                       a < b => NameRank(s.reviewers[a])
                                    <= NameRank(s.reviewers[b])
                /\ Len(s.reviewers) = s.approval_count

\* under approvals_only a vote that asks for fixes and an approving one give
\* one reviewer, the approver
C20_Witness ==
    /\ tool = "summarize"
    /\ pc = "done"
    /\ cli.approvals_only
    /\ Len(mps) >= 1
    /\ Len(mps[1].votes) = 2
    /\ mps[1].votes[1].vote = "Needs Fixing"
    /\ mps[1].votes[2].vote = "Approve"
    /\ \E j \in SummariesOf(1) :
           /\ mp_summaries[j].reviewers = << mps[1].votes[2].reviewer >>
           /\ mp_summaries[j].approval_count = 1

-----------------------------------------------------------------------------
(* picker.py: the list picker.  pick() constructs a Picker and starts it;   *)
(* the loop that reads the keys, the moves of the focus and the lines of    *)
(* the list are those of the class it extends.                              *)

MaxOptions == 3
MaxY == 4

\* the arguments of pick(): default_index is << >> when the caller leaves it
\* out, max_y is the height screen.getmaxyx() reports
PickArgs(n, default_index, title, line_count, max_y) ==
    [ options       |-> [i \in 1..n |-> "option" \o ToString(i)],
      default_index |-> default_index,
      title         |-> title,
      line_count    |-> line_count,
      max_y         |-> max_y ]

InitPicker ==
    /\ tool = "pick"
    /\ \E n \in 0..MaxOptions, t \in { "", "Pick" } :
           \E d \in { << >> } \cup { << i >> : i \in -1..MaxOptions } :
               \E lc \in 1..2, y \in 1..MaxY :
                   args = PickArgs(n, d, t, lc, y)
    /\ cli = [approvals_only |-> FALSE]
    /\ mps = << >>
    /\ local_branches = << >>
    /\ active_branch = ""
    /\ pc = "start"
    /\ mp_summaries = << >>
    /\ widget = "none"
    /\ edit_text = << >>
    /\ focus = 0
    /\ directory = << >>
    /\ checkedout_branch = ""
    /\ chosen_mp = << >>
    /\ source_branch = ""
    /\ target_branch = ""
    /\ mp_message_output = ""
    /\ events = << >>
    /\ entered = [w \in Widgets |-> 0]
    /\ key = ""
    /\ exit_code = -1
    /\ workspace = "none"
    /\ container_name = ""
    /\ attempt = 0
    /\ returncode = -1
    /\ runtox_returned = -1
    /\ retval = << >>
    /\ picker = << >>

\* what a step of the picker leaves alone
tool_state ==
    << inputs, tox_state, mp_summaries, widget, edit_text, focus, directory,
       checkedout_branch, chosen_mp, source_branch, target_branch,
       mp_message_output, events, entered, key, exit_code >>

\* default_index=0 in the signature: the value of an argument left out
DefaultIndex(a) ==
    IF a.default_index = << >> THEN 0 ELSE a.default_index[1]

InvalidDefault_OffByOne(options, default_index) ==
    default_index > Len(options)

\* if default_index >= len(options): raise ValueError
InvalidDefault(options, default_index) == default_index >= Len(options)

\* Picker.__init__: ValueError on an empty list and on a default_index past
\* the end of it, else the fields are set; scroll_top is no attribute yet
Picker ==
    /\ tool = "pick"
    /\ pc = "start"
    /\ IF \/ Len(args.options) = 0
          \/ InvalidDefault(args.options, DefaultIndex(args))
       THEN /\ pc' = "raised"
            /\ UNCHANGED picker
       ELSE /\ pc' = "constructed"
            /\ picker' = << [ options    |-> args.options,
                              title      |-> args.title,
                              index      |-> DefaultIndex(args),
                              line_count |-> args.line_count,
                              scroll_top |-> << >> ] >>
    /\ UNCHANGED << tool_state, args, retval >>

\* return picker.start(): the loop of the picker is entered
start ==
    /\ tool = "pick"
    /\ pc = "constructed"
    /\ pc' = "run_loop"
    /\ UNCHANGED << tool_state, call_state >>

\* get_lines(): the lines of the title, a blank line after it, and one line
\* for each option
TitleLines(p) == IF p.title = "" THEN 0 ELSE 2

\* get_lines(): the 1-based position of the line of the focused option
current_line(p) == p.index + TitleLines(p) + 1

\* max_rows = floor((max_y - y) / self.line_count), with y = 1
max_rows(p, max_y) == (max_y - 1) \div p.line_count

\* getattr(self, 'scroll_top', 0)
getattr_scroll_top(p) ==
    IF p.scroll_top = << >> THEN 0 ELSE p.scroll_top[1]

\* the scroll_top draw() computes and keeps
ScrollTop(p, max_y) ==
    IF current_line(p) <= getattr_scroll_top(p)
    THEN 0
    ELSE IF current_line(p) - getattr_scroll_top(p) > max_rows(p, max_y)
         THEN current_line(p) - max_rows(p, max_y)
         ELSE getattr_scroll_top(p)

\* draw(): the loop draws before it reads a key
draw ==
    /\ tool = "pick"
    /\ pc = "run_loop"
    /\ picker' = << [picker[1] EXCEPT
                        !.scroll_top = << ScrollTop(picker[1], args.max_y) >>] >>
    /\ pc' = "getch"
    /\ UNCHANGED << tool_state, args, retval >>

\* move(delta): the focus moves by one and stays within the options, by
\* wrapping around or by stopping at the end
move(delta) ==
    /\ LET p == picker[1]
           n == Len(p.options)
           to == p.index + delta
       IN \E wraps \in BOOLEAN :
              picker' = << [p EXCEPT !.index =
                  IF to < 0 THEN (IF wraps THEN n - 1 ELSE 0)
                  ELSE IF to >= n THEN (IF wraps THEN 0 ELSE n - 1)
                  ELSE to] >>
    /\ pc' = "run_loop"
    /\ UNCHANGED << tool_state, args, retval >>

\* the key of the line above
move_up ==
    /\ tool = "pick"
    /\ pc = "getch"
    /\ move(-1)

\* the key of the line below
move_down ==
    /\ tool = "pick"
    /\ pc = "getch"
    /\ move(1)

\* confirm(): the focused option and its index are returned; a negative
\* index counts from the end of the list
get_selected ==
    /\ tool = "pick"
    /\ pc = "getch"
    /\ LET p == picker[1]
           i == IF p.index < 0 THEN Len(p.options) + p.index ELSE p.index
       IN retval' = << p.options[i + 1], p.index >>
    /\ pc' = "done"
    /\ UNCHANGED << tool_state, args, picker >>

NextPicker ==
    \/ Picker
    \/ start
    \/ draw
    \/ move_up
    \/ move_down
    \/ get_selected

SpecPicker == InitPicker /\ [][NextPicker]_vars

\* the picker object, in the states that have one
Constructed == tool = "pick" /\ picker # << >>

\* C21: constructing a picker raises, and no state of the selection is ever
\* entered, exactly when the option list is empty or default_index is not
\* below its length; a picker that is constructed has its focus on
\* default_index, and on 0 when the caller gave none.
C21_ConstructionGuard ==
    (tool = "pick" /\ pc # "start") =>
        LET n == Len(args.options)
            invalid == \/ n = 0
                       \/ /\ args.default_index # << >>
                          /\ args.default_index[1] >= n
        IN /\ invalid <=> (pc = "raised")
           /\ invalid => picker = << >>
           /\ ~invalid => Constructed
           /\ pc = "constructed" =>
                  picker[1].index = IF args.default_index = << >>
                                    THEN 0
                                    ELSE args.default_index[1]

C21_Witness ==
    /\ tool = "pick"
    /\ pc = "raised"
    /\ Len(args.options) > 0
    /\ args.default_index = << Len(args.options) >>

-----------------------------------------------------------------------------
(* The two functions of lpshipit.py that the tools share, each called alone *)
(* on arguments of its own.                                                 *)

MaxRefLen == 4

\* the components a git ref is made of here; "" gives a doubled or a
\* trailing '/'
RefParts == { "refs", "heads", "feature-x", "" }

AuthorValues == { "alice", "" }
ReviewersValues == { "bob,carol", "bob", "" }
SourceValues == { "feat", "refs/heads/feat" }
TargetValues == { "main", "[r=x]" }
BodyValues == { "fix thing", "line 1\nline 2", "{}", "" }
LinkValues == { "http://x/1", "" }

Functions == { "_format_git_branch_name", "build_commit_msg" }

InitCalls ==
    /\ tool \in Functions
    /\ IF tool = "_format_git_branch_name"
       THEN \E n \in 0..MaxRefLen : \E ref \in [1..n -> RefParts] :
                args = [branch_name |-> ref]
       ELSE \E a \in AuthorValues, r \in ReviewersValues :
                \E s \in SourceValues, t \in TargetValues :
                    \E b \in BodyValues, l \in LinkValues :
                        args = [ author |-> a, reviewers |-> r,
                                 source_branch |-> s, target_branch |-> t,
                                 commit_message |-> b, mp_web_link |-> l ]
    /\ cli = [approvals_only |-> FALSE]
    /\ mps = << >>
    /\ local_branches = << >>
    /\ active_branch = ""
    /\ pc = "start"
    /\ mp_summaries = << >>
    /\ widget = "none"
    /\ edit_text = << >>
    /\ focus = 0
    /\ directory = << >>
    /\ checkedout_branch = ""
    /\ chosen_mp = << >>
    /\ source_branch = ""
    /\ target_branch = ""
    /\ mp_message_output = ""
    /\ events = << >>
    /\ entered = [w \in Widgets |-> 0]
    /\ key = ""
    /\ exit_code = -1
    /\ workspace = "none"
    /\ container_name = ""
    /\ attempt = 0
    /\ returncode = -1
    /\ runtox_returned = -1
    /\ retval = << >>
    /\ picker = << >>

call_format_git_branch_name ==
    /\ tool = "_format_git_branch_name"
    /\ pc = "start"
    /\ retval' = << _format_git_branch_name(args.branch_name) >>
    /\ pc' = "done"
    /\ UNCHANGED << tool_state, args, picker >>

call_build_commit_msg ==
    /\ tool = "build_commit_msg"
    /\ pc = "start"
    /\ retval' = << build_commit_msg(args.author, args.reviewers,
                                     args.source_branch, args.target_branch,
                                     args.commit_message, args.mp_web_link) >>
    /\ pc' = "done"
    /\ UNCHANGED << tool_state, args, picker >>

NextCalls ==
    \/ call_format_git_branch_name
    \/ call_build_commit_msg

SpecCalls == InitCalls /\ [][NextCalls]_vars

\* the ref as one string
RefText(ref) == Join(ref, "/")

\* the ref starts with "refs/heads/"
HasHeadsPrefix(ref) == Len(ref) >= 3 /\ ref[1] = "refs" /\ ref[2] = "heads"

\* C22: the branch name of a ref that starts with "refs/heads/" is the ref
\* without that one leading prefix, so that the prefix and the name make the
\* ref again; the branch name of any other ref is the ref itself.
C22_LeadingPrefixRemoved ==
    (tool = "_format_git_branch_name" /\ pc = "done") =>
        /\ HasHeadsPrefix(args.branch_name) =>
               "refs/heads/" \o retval[1] = RefText(args.branch_name)
        /\ ~HasHeadsPrefix(args.branch_name) =>
               retval[1] = RefText(args.branch_name)
        /\ args.branch_name = << "refs", "heads", "feature-x" >> =>
               retval[1] = "feature-x"

C22_Witness ==
    /\ tool = "_format_git_branch_name"
    /\ pc = "done"
    /\ args.branch_name = << "refs", "heads", "refs", "heads" >>
    /\ retval = << "refs/heads" >>

\* the lines of the message the convention asks for: the header, a blank
\* line, the body as it is, a blank line, the link of the proposal
MessageLines(a) ==
    << Join(<< "Merge", a.source_branch, "into", a.target_branch,
               "[a=" \o a.author \o "]", "[r=" \o a.reviewers \o "]" >>, " "),
       "",
       a.commit_message,
       "",
       "MP: " \o a.mp_web_link >>

\* C23: for all values of its fields the commit message builder returns the
\* header "Merge {source} into {target} [a={author}] [r={reviewers}]", a
\* blank line, the body verbatim, a blank line and "MP: {web_link}", joined
\* by newlines with none after the last line; the fields alice, "bob,carol",
\* feat, main, "fix thing", http://x/1 give the message of the example.
C23_MessageFormat ==
    (tool = "build_commit_msg" /\ pc = "done") =>
        /\ retval[1] = Join(MessageLines(args), "\n")
        /\ Len(retval[1]) =
               Len(args.source_branch) + Len(args.target_branch)
               + Len(args.author) + Len(args.reviewers)
               + Len(args.commit_message) + Len(args.mp_web_link)
               + Len("Merge  into  [a=] [r=]") + 4 + Len("MP: ")
        /\ ( /\ args.author = "alice"
             /\ args.reviewers = "bob,carol"
             /\ args.source_branch = "feat"
             /\ args.target_branch = "main"
             /\ args.commit_message = "fix thing"
             /\ args.mp_web_link = "http://x/1" ) =>
               retval[1] = "Merge feat into main [a=alice] [r=bob,carol]\n\nfix thing\n\nMP: http://x/1"

C23_Witness ==
    /\ tool = "build_commit_msg"
    /\ pc = "done"
    /\ args.commit_message = "line 1\nline 2"
    /\ args.target_branch = "[r=x]"
    /\ retval = << "Merge feat into [r=x] [a=alice] [r=bob,carol]\n\nline 1\nline 2\n\nMP: http://x/1" >>

-----------------------------------------------------------------------------
(* What a test run returns, and the order of its steps. *)

\* the test command run in the container, with the status it ended with
IsTestInContainer(e) ==
    /\ Len(e) = 4
    /\ e[1] = "lxc exec"
    /\ e[3] = ToxCommand \o " -c " \o LocalRepo

\* the test command run locally, with the status it ended with
IsTestLocally(e) == e[1] = "tox"

\* a command that installs tox in the container
IsSetup(e) == Len(e) = 4 /\ e[1] = "lxc exec" /\ e[3] \in Range(SetupCommands)

\* the status a finished child left in its event
StatusOf(e) == e[Len(e)]

\* C24: what runtox returns is the exit status of the test command: of the
\* local child when there is no environment, and of the last command run in
\* the container otherwise, whatever the statuses of the three commands that
\* install tox before it; the test command was run once, and after the
\* setup commands.
C24_RuntoxReturnsTestStatus ==
    runtox_returned # -1 =>
        IF cli.environment = << >>
        THEN /\ Count(IsTestLocally) = 1
             /\ \E i \in 1..Len(events) :
                    /\ IsTestLocally(events[i])
                    /\ StatusOf(events[i]) = ToString(runtox_returned)
        ELSE /\ Count(IsTestInContainer) = 1
             /\ Count(IsSetup) = Len(SetupCommands)
             /\ \E i \in 1..Len(events) :
                    /\ IsTestInContainer(events[i])
                    /\ StatusOf(events[i]) = ToString(runtox_returned)
                    /\ \A j \in 1..Len(events) : IsSetup(events[j]) => j < i

C24_Witness ==
    /\ runtox_returned = 0
    /\ cli.environment # << >>
    /\ \A i \in 1..Len(events) : IsSetup(events[i]) => StatusOf(events[i]) = "1"
    /\ Count(IsSetup) = Len(SetupCommands)

\* the test command was started in the container, whether or not it came to
\* its end
IsTestStarted(e) ==
    /\ Len(e) >= 3
    /\ e[1] = "lxc exec"
    /\ e[3] = ToxCommand \o " -c " \o LocalRepo

IsWorkspacePush(e) == e = << "lxc file push", LocalRepo, container_name \o "/tmp" >>

IsCredentialsPush(e) ==
    /\ e[1] = "lxc file push"
    /\ e[2] \in { "~/.ssh", "~/.gitconfig" }
    /\ e[3] = container_name

\* the positions of the events of a kind
Positions(P(_)) == { i \in 1..Len(events) : P(events[i]) }

\* every position of `a` is before every position of `b`
Before(a, b) == \A i \in a, j \in b : i < j

\* C25: when the test command is started in a container, the steps before it
\* were all taken, once each and in this order: the clone into the
\* workspace, the launch of the container, a probe of the networking wait
\* that exited 0, the push of the workspace and the pushes of the two
\* credentials; no deletion came before it, and when the run is over the
\* deletion of the container has come after it.
C25_ContainerStepOrder ==
    LET tests == Positions(IsTestStarted)
        clones == Positions(IsClone)
        launches == Positions(IsContainer)
        up == { i \in Positions(IsProbe) :
                    Len(events[i]) = 4 /\ events[i][4] = "0" }
        pushes == Positions(IsWorkspacePush)
        credentials == Positions(IsCredentialsPush)
        deletes == Positions(IsDelete)
    IN  tests # { } =>
            /\ Cardinality(tests) = 1
            /\ Cardinality(clones) = 1
            /\ Cardinality(launches) = 1
            /\ Cardinality(up) = 1
            /\ Cardinality(pushes) = 1
            /\ Cardinality(credentials) = 2
            /\ Before(clones, launches)
            /\ Before(launches, Positions(IsProbe))
            /\ Before(Positions(IsProbe) \ up, up)
            /\ Before(up, pushes)
            /\ Before(pushes, credentials)
            /\ Before(credentials, tests)
            /\ Before(tests, deletes)
            /\ Finished => Cardinality(deletes) = 1

C25_Witness ==
    /\ Finished
    /\ Positions(IsTestStarted) # { }
    /\ FailedProbes # { }
    /\ Positions(IsDelete) # { }

-----------------------------------------------------------------------------
(* The tools that ask for one proposal and act on it. *)

SinglePick == tool \in { "lpmptox", "lpmpmessage" }

\* the summary under the focus of the list of proposals
Focused == mp_summaries[focus - 1]

\* the message of the convention, from the fields of a summary
MessageOf(mp) ==
    Join(<< "Merge " \o mp.source_branch \o " into " \o mp.target_branch
            \o " [a=" \o mp.author \o "] [r=" \o Join(mp.reviewers, ",")
            \o "]",
            "", mp.commit_message, "", "MP: " \o mp.web >>, "\n")

\* a commit message was printed: any print but the one of no proposals
IsMessagePrint(e) == IsPrint(e) /\ e[2] # NoProposalsText

\* the run left the list by the quit key
QuitTheList ==
    SinglePick /\ Finished /\ key \in { "q", "Q" } /\ entered["mp_box"] > 0

\* C26: in the message tool and in the test-run tool nothing is done unless
\* a proposal was confirmed: a run that left the list by the quit key
\* confirmed none, and without a confirmed proposal no commit message is
\* printed, nothing is cloned, no container is launched and no test command
\* is run.  With a confirmed proposal the message tool has printed one
\* message, the one of the fields of the proposal under the focus, and the
\* test-run tool, once runtox has been entered, has cloned once: the
\* source_repo and source_branch of the proposal under the focus.
C26_ActsOnConfirmedOnly ==
    SinglePick =>
        /\ QuitTheList => chosen_mp = << >>
        /\ chosen_mp = << >> =>
               /\ Count(IsMessagePrint) = 0
               /\ Count(IsClone) = 0
               /\ Count(IsContainer) = 0
               /\ Count(IsTestLocally) = 0
               /\ Count(IsTestStarted) = 0
        /\ (chosen_mp # << >> /\ tool = "lpmpmessage") =>
               /\ Count(IsMessagePrint) = 1
               /\ << "print", MessageOf(Focused) >> \in Range(events)
        /\ (chosen_mp # << >> /\ tool = "lpmptox") =>
               /\ Count(IsMessagePrint) = 0
               /\ IF pc = "runtox"
                  THEN Count(IsClone) = 0
                  ELSE /\ Count(IsClone) = 1
                       /\ << "clone_from", Focused.source_repo,
                             Focused.source_branch >> \in Range(events)
               /\ Count(IsTestLocally) + Count(IsTestStarted) <= 1

\* the second of two proposals was confirmed in the test-run tool and its
\* test command was run locally
C26_Witness ==
    /\ tool = "lpmptox"
    /\ Finished
    /\ chosen_mp # << >>
    /\ Len(mp_summaries) = 2
    /\ focus = 2
    /\ Focused.source_branch # mp_summaries[2].source_branch
    /\ Count(IsTestLocally) = 1

-----------------------------------------------------------------------------
(* The merge summary of the merge flow. *)

\* the summary 'has been merged in to' was put on the screen
SummaryShown == MergeFlow /\ entered["merge_summary_box"] > 0

\* the run crashed on the checkout of the target branch
CheckoutFailed ==
    /\ pc = "crashed"
    /\ Len(events) > 0
    /\ events[Len(events)] = << "checkout", target_branch >>

\* C27: in the merge flow the merge summary is on the screen only after the
\* checkout of the target branch and then the merge command were both run
\* and neither raised; a run in which the checkout or the merge command
\* failed never shows the summary.
C27_SummaryOnlyAfterMerge ==
    MergeFlow =>
        /\ SummaryShown =>
               /\ pc # "crashed"
               /\ \E i, j \in 1..Len(events) :
                      /\ i < j
                      /\ events[i] = << "checkout", target_branch >>
                      /\ IsMerge(events[j])
                      /\ j = Len(events)
        /\ (CheckoutFailed \/ (MergeFlow /\ MergeFailed)) =>
               /\ ~SummaryShown
               /\ ~Confirmed

C27_Witness ==
    /\ MergeFlow
    /\ MergeFailed
    /\ ~SummaryShown
    /\ entered["target_branch_box"] = 1

-----------------------------------------------------------------------------
(* The focus of the picker and the window its draw step shows. *)

\* C28 as claimed: right after a picker is constructed its index is within
\* the options, 0 <= index <= len(options) - 1, whatever default_index was.
C28_IndexWithinOptions ==
    (tool = "pick" /\ pc = "constructed") =>
        /\ 0 <= picker[1].index
        /\ picker[1].index <= Len(picker[1].options) - 1

\* the focus is on the line of an option
FocusOnOption ==
    /\ 0 <= picker[1].index
    /\ picker[1].index <= Len(picker[1].options) - 1

\* the draw step has just run, on a screen with room for a row
Drawn ==
    /\ tool = "pick"
    /\ pc = "getch"
    /\ max_rows(picker[1], args.max_y) >= 1

\* C29 as claimed: after a draw on a screen with max_rows >= 1 the focused
\* line is within the window that is drawn,
\* scroll_top < current_line <= scroll_top + max_rows.
C29_FocusWithinWindow ==
    (Drawn /\ FocusOnOption) =>
        /\ picker[1].scroll_top[1] < current_line(picker[1])
        /\ current_line(picker[1]) <=
               picker[1].scroll_top[1] + max_rows(picker[1], args.max_y)
====
